---- MODULE Spec2Model ----
(***************************************************************************)
(* Model of src/query.rs: one iterative Kademlia Query (the Lookup) driven *)
(* against a KrpcSocket (the Transport) and its private RoutingTable (the  *)
(* Candidate Table).                                                       *)
(***************************************************************************)
EXTENDS Integers, Sequences, FiniteSets, TLC

\* ------------------------------------------------------------------ bounds
\* Transaction ids the socket may allocate: 0 .. MaxTid-1 (the counter is capped).
MaxTid == 2
\* Longest `nodes` vector handed to add_candidates.
MaxNodes == 1

\* ------------------------------------------------------------------ values
\* Identifiers of the keyspace (2 bits) and socket addresses.
Ids == 0 .. 3
\* Targets a Query is constructed with.
Targets == {0, 3}
V4Addrs == {1, 2}
V6Addrs == {3}
Addrs == V4Addrs \cup V6Addrs
Tids == 0 .. (MaxTid - 1)

\* SocketAddr::is_ipv6
is_ipv6(address) == address \in V6Addrs

\* The nodes the driver may seed or report: A and B at two IPv4 addresses, a node
\* sharing B's address under another id, and an IPv6 node.
Node(id, address) == [id |-> id, address |-> address]
NodeUniverse ==
    { Node(1, 1), Node(3, 2), Node(0, 2), Node(2, 3) }

Range(s) == { s[i] : i \in 1 .. Len(s) }

\* Sequences over S of length at most n.
SeqUpTo(S, n) == UNION { [1 .. k -> S] : k \in 0 .. n }

\* The `nodes` vectors the driver may hand to add_candidates.
NodeLists == SeqUpTo(NodeUniverse, MaxNodes)

\* ------------------------------------------------------------------ Id distance
RECURSIVE Xor(_, _)
\* Bitwise XOR of two naturals (Id::xor, the Kademlia distance).
Xor(a, b) ==
    IF a = 0 /\ b = 0 THEN 0
    ELSE (((a % 2) + (b % 2)) % 2) + (2 * Xor(a \div 2, b \div 2))

\* ------------------------------------------------------------------ RoutingTable
\* RoutingTable::new().with_id(target): an empty table.
TableNew == {}

\* RoutingTable::is_empty
TableIsEmpty(t) == t = {}

\* RoutingTable::add
TableAdd(t, node) == t \cup {node}

\* Rank of a node for a target: distance first, address as the tie-break.
Rank(node, id) == Xor(node.id, id) * (Cardinality(Addrs) + 1) + node.address

RECURSIVE SortByRank(_, _)
SortByRank(S, id) ==
    IF S = {} THEN << >>
    ELSE LET m == CHOOSE n \in S : \A o \in S : Rank(n, id) <= Rank(o, id)
         IN  << m >> \o SortByRank(S \ {m}, id)

\* RoutingTable::closest: the table's nodes by ascending distance to id.
TableClosest(t, id) == SortByRank(t, id)

\* ------------------------------------------------------------------ KrpcSocket
\* KrpcSocket::request: allocate the next transaction id and register it as inflight.
SocketRequest(sock) ==
    [ tid |-> sock.next_tid,
      socket |-> [ inflight_requests |-> sock.inflight_requests \cup {sock.next_tid},
                   next_tid |-> sock.next_tid + 1 ] ]

\* ------------------------------------------------------------------ Query
\* Query::is_empty
is_empty(t) == TableIsEmpty(t)

\* is_done that tests for inflight requests instead of their absence.
is_done_inverted(inflight) == inflight # << >>

\* Query::is_done
is_done(inflight) == inflight = << >>

\* closest that ranks against its argument.
closest_by_argument(t, self_target, arg) == TableClosest(t, arg)

\* Query::closest: the argument is ignored, the table is ranked against self.target.
closest(t, self_target, arg) == TableClosest(t, self_target)

\* The mutable part of a Query together with the socket it is handed, plus the
\* addresses requested so far by the running call (`sent`).
QState(inflight, vis, sock, sent) ==
    [ inflight_requests |-> inflight, visited |-> vis, socket |-> sock, sent |-> sent ]

\* The effect of visit when it does request: socket.request, push the tid, insert.
request_and_record(q, address) ==
    LET r == SocketRequest(q.socket)
    IN  [ q EXCEPT !.socket = r.socket,
                   !.inflight_requests = Append(@, r.tid),
                   !.visited = @ \cup {address},
                   !.sent = Append(@, address) ]

\* visit without the `self.visited.contains(&address)` test.
visit_unchecked(q, address) ==
    IF is_ipv6(address) THEN q ELSE request_and_record(q, address)

\* visit without `self.visited.insert(address)`.
visit_forgetful(q, address) ==
    IF address \in q.visited \/ is_ipv6(address)
    THEN q
    ELSE [ request_and_record(q, address) EXCEPT !.visited = q.visited ]

\* visit without the `address.is_ipv6()` test.
visit_any_family(q, address) ==
    IF address \in q.visited THEN q ELSE request_and_record(q, address)

\* visit that pushes the socket's next tid in place of the tid request returned.
visit_stale_tid(q, address) ==
    IF address \in q.visited \/ is_ipv6(address)
    THEN q
    ELSE LET n == request_and_record(q, address)
         IN  [ n EXCEPT !.inflight_requests = Append(q.inflight_requests, n.socket.next_tid) ]

\* Query::visit
visit(q, address) ==
    IF address \in q.visited \/ is_ipv6(address)
    THEN q
    ELSE request_and_record(q, address)

\* Vec::iter().position
RECURSIVE position(_, _, _)
position(s, x, i) ==
    IF i > Len(s) THEN 0
    ELSE IF s[i] = x THEN i
    ELSE position(s, x, i + 1)

\* Vec::pop in place of Vec::remove(index).
remove_last(s, index) == SubSeq(s, 1, Len(s) - 1)

\* Vec::remove
remove(s, index) == SubSeq(s, 1, index - 1) \o SubSeq(s, index + 1, Len(s))

\* add_candidates that trusts the socket to have routed the response to the right
\* Query: it adds the nodes and reports success whether or not it holds the tid.
add_candidates_trusting(inflight, t, tid, nodes) ==
    LET index == position(inflight, tid, 1)
    IN  [ inflight_requests |-> IF index # 0 THEN remove(inflight, index) ELSE inflight,
          table |-> t \cup Range(nodes),
          ret |-> TRUE ]

\* add_candidates that removes the tid and drops the nodes of the response.
add_candidates_discarding(inflight, t, tid, nodes) ==
    LET index == position(inflight, tid, 1)
    IN  [ inflight_requests |-> IF index # 0 THEN remove(inflight, index) ELSE inflight,
          table |-> t,
          ret |-> index # 0 ]

\* add_candidates that adds the nodes before it looks for the tid.
add_candidates_eager(inflight, t, tid, nodes) ==
    LET index == position(inflight, tid, 1)
    IN  [ inflight_requests |-> IF index # 0 THEN remove(inflight, index) ELSE inflight,
          table |-> t \cup Range(nodes),
          ret |-> index # 0 ]

RECURSIVE add_all(_, _)
\* the `for node in nodes { self.add(node.clone()) }` loop of add_candidates
add_all(t, nodes) ==
    IF nodes = << >> THEN t
    ELSE add_all(TableAdd(t, Head(nodes)), Tail(nodes))

\* Query::add_candidates: the new inflight vector, the new table and the result.
add_candidates(inflight, t, tid, nodes) ==
    LET index == position(inflight, tid, 1)
    IN  IF index # 0
        THEN [ inflight_requests |-> remove(inflight, index),
               table |-> add_all(t, nodes),
               ret |-> TRUE ]
        ELSE [ inflight_requests |-> inflight, table |-> t, ret |-> FALSE ]

\* clear_timedout_requests that keeps every tid.
clear_timedout_requests_keep_all(q) == q

\* clear_timedout_requests that requests a visited address again when a tid timed out.
clear_timedout_requests_retry(q) ==
    LET kept == SelectSeq(q.inflight_requests,
                          LAMBDA tid : tid \in q.socket.inflight_requests)
        n == [ q EXCEPT !.inflight_requests = kept ]
    IN  IF Len(kept) = Len(q.inflight_requests) \/ q.visited = {}
        THEN n
        ELSE request_and_record(n, CHOOSE a \in q.visited : TRUE)

\* Query::clear_timedout_requests
clear_timedout_requests(q) ==
    [ q EXCEPT !.inflight_requests =
        SelectSeq(@, LAMBDA tid : tid \in q.socket.inflight_requests) ]

RECURSIVE visit_each(_, _)
\* the `for node in to_visit { self.visit(socket, node.address) }` loop
visit_each(q, to_visit) ==
    IF to_visit = << >> THEN q
    ELSE visit_each(visit(q, Head(to_visit).address), Tail(to_visit))

\* Query::visit_closest
visit_closest(q, t, id) ==
    LET to_visit == SelectSeq(TableClosest(t, id),
                              LAMBDA node : node.address \notin q.visited)
    IN  visit_each(q, to_visit)

\* cleanup_after_finish that never clears visited.
cleanup_after_finish_keep(q) == q

\* cleanup_after_finish without the `self.inflight_requests.is_empty()` test.
cleanup_after_finish_eager(q) ==
    IF q.visited # {} THEN [ q EXCEPT !.visited = {} ] ELSE q

\* Query::cleanup_after_finish
cleanup_after_finish(q) ==
    IF q.inflight_requests = << >> /\ q.visited # {}
    THEN [ q EXCEPT !.visited = {} ]
    ELSE q

\* Query::tick
tick(q, t, id) ==
    cleanup_after_finish(visit_closest(clear_timedout_requests(q), t, id))

\* ------------------------------------------------------------------ state
VARIABLES
    target,              \* Query.target
    table,               \* Query.table
    inflight_requests,   \* Query.inflight_requests
    visited,             \* Query.visited
    socket,              \* the KrpcSocket: [inflight_requests, next_tid]
    last,                \* history: the last call and what it did
    issued,              \* history: tids socket.request returned to this Query
    queried,             \* history: addresses this Query has requested
    removed,             \* history: tids this Query removed from inflight_requests
    epoch_sends,         \* history: requests per address since visited was last cleared
    other                \* a second Query on the same socket, with its own history

vars == << target, table, inflight_requests, visited, socket, last, issued, queried,
           removed, epoch_sends, other >>

\* The history of a call: its name and arguments, the addresses it requested in
\* order (sent), the tids its Reap phase dropped (reaped), the result of
\* add_candidates (ret), whether it cleared visited (reset), and whether it repeats
\* the call before it (again): a visit of the address the previous visit requested,
\* or a tick right after a tick that cleared visited.
NoCall ==
    [ op |-> "new", addr |-> 0, tid |-> 0, sent |-> << >>,
      reaped |-> {}, ret |-> FALSE, reset |-> FALSE, again |-> FALSE ]

\* Query::new(id) as a record, for the second Query.
NewQuery(id) ==
    [ target |-> id, table |-> TableNew, inflight_requests |-> << >>, visited |-> {},
      issued |-> {}, queried |-> {}, removed |-> {},
      epoch_sends |-> [ a \in Addrs |-> 0 ] ]

\* Query::new, with a fresh socket; the second Query searches another target.
Init ==
    /\ target \in Targets
    /\ table = TableNew
    /\ inflight_requests = << >>
    /\ visited = {}
    /\ socket = [ inflight_requests |-> {}, next_tid |-> 0 ]
    /\ last = NoCall
    /\ issued = {}
    /\ queried = {}
    /\ removed = {}
    /\ epoch_sends = [ a \in Addrs |-> 0 ]
    /\ other = NewQuery(CHOOSE id \in Targets : id # target)

\* Number of occurrences of address a in the sequence s.
Count(s, a) == Cardinality({ i \in 1 .. Len(s) : s[i] = a })

\* Did the call that took visited to q.visited clear it?
Cleared(q) == q.visited = {} /\ (visited # {} \/ q.sent # << >>)

\* The history after a call that took the Query from its current fields to q.
Record(q) ==
    /\ issued' = issued \cup (socket.next_tid .. (q.socket.next_tid - 1))
    /\ queried' = queried \cup Range(q.sent)
    /\ removed' = removed \cup (Range(inflight_requests) \ Range(q.inflight_requests))
    /\ epoch_sends' =
         [ a \in DOMAIN epoch_sends |->
             IF Cleared(q) THEN 0 ELSE epoch_sends[a] + Count(q.sent, a) ]

Current == QState(inflight_requests, visited, socket, << >>)

\* add that also starts a new pass by clearing visited.
Add_resetting(node) ==
    /\ table' = TableAdd(table, node)
    /\ visited' = {}
    /\ last' = [ NoCall EXCEPT !.op = "add" ]
    /\ UNCHANGED << target, inflight_requests, socket, issued, queried,
                    removed, epoch_sends, other >>

\* Query::add (seed)
Add(node) ==
    /\ table' = TableAdd(table, node)
    /\ last' = [ NoCall EXCEPT !.op = "add" ]
    /\ UNCHANGED << target, inflight_requests, visited, socket, issued, queried,
                    removed, epoch_sends, other >>

\* Query::visit (dispatch)
Visit(address) ==
    LET q == visit(Current, address)
    IN  /\ q.socket.next_tid <= MaxTid
        /\ inflight_requests' = q.inflight_requests
        /\ visited' = q.visited
        /\ socket' = q.socket
        /\ last' = [ NoCall EXCEPT !.op = "visit", !.addr = address, !.sent = q.sent,
                       !.again = (last.op = "visit" /\ last.addr = address
                                  /\ last.sent = << address >>) ]
        /\ Record(q)
        /\ UNCHANGED << target, table, other >>

\* add_candidates that first asks the socket whether the tid is still inflight there.
AddCandidates_if_tracked(tid, nodes) ==
    LET r == IF tid \in socket.inflight_requests
             THEN add_candidates(inflight_requests, table, tid, nodes)
             ELSE [ inflight_requests |-> inflight_requests, table |-> table,
                    ret |-> FALSE ]
    IN  /\ inflight_requests' = r.inflight_requests
        /\ table' = r.table
        /\ last' = [ NoCall EXCEPT !.op = "add_candidates", !.tid = tid,
                       !.ret = r.ret ]
        /\ removed' = removed \cup (Range(inflight_requests) \ Range(r.inflight_requests))
        /\ UNCHANGED << target, visited, socket, issued, queried, epoch_sends, other >>

\* Query::add_candidates (absorb)
AddCandidates(tid, nodes) ==
    LET r == add_candidates(inflight_requests, table, tid, nodes)
    IN  /\ inflight_requests' = r.inflight_requests
        /\ table' = r.table
        /\ last' = [ NoCall EXCEPT !.op = "add_candidates", !.tid = tid,
                       !.ret = r.ret ]
        /\ removed' = removed \cup (Range(inflight_requests) \ Range(r.inflight_requests))
        /\ UNCHANGED << target, visited, socket, issued, queried, epoch_sends, other >>

\* Query::tick (step), while the socket has issued at most cap tids.
TickWithin(cap) ==
    LET q == tick(Current, table, target)
    IN  /\ q.socket.next_tid <= cap
        /\ inflight_requests' = q.inflight_requests
        /\ visited' = q.visited
        /\ socket' = q.socket
        /\ last' = [ NoCall EXCEPT !.op = "tick", !.sent = q.sent,
                       !.reaped = Range(inflight_requests)
                                    \ Range(clear_timedout_requests(Current).inflight_requests),
                       !.reset = Cleared(q),
                       !.again = (last.op = "tick" /\ last.reset) ]
        /\ Record(q)
        /\ UNCHANGED << target, table, other >>

\* Query::tick (step)
Tick == TickWithin(MaxTid)

\* The socket stops tracking a request: its response arrived or it timed out.
SocketResolve(tid) ==
    /\ tid \in socket.inflight_requests
    /\ socket' = [ socket EXCEPT !.inflight_requests = @ \ {tid} ]
    /\ last' = [ NoCall EXCEPT !.op = "resolve", !.tid = tid ]
    /\ UNCHANGED << target, table, inflight_requests, visited, issued, queried,
                    removed, epoch_sends, other >>

Next ==
    \/ \E node \in NodeUniverse : Add(node)
    \/ \E address \in Addrs : Visit(address)
    \/ \E tid \in Tids, nodes \in NodeLists : AddCandidates(tid, nodes)
    \/ Tick
    \/ \E tid \in Tids : SocketResolve(tid)

Spec == Init /\ [][Next]_vars

\* ------------------------------------------------------------------ properties
\* Every step that changes the state is a call and sets last.op to the call's name,
\* so `last'.op = "visit"` in an action formula reads "this step is a visit call".

\* C1: dispatch of an unvisited IPv4 address makes exactly one socket request, and a
\* second dispatch of the same address right after it requests nothing and leaves
\* inflight_requests, visited and the socket unchanged.
C1_DispatchTwiceSendsOnce ==
    [][ \A a \in Addrs :
          /\ (last'.op = "visit" /\ last'.addr = a /\ a \notin visited /\ ~is_ipv6(a))
                => /\ last'.sent = << a >>
                   /\ socket'.next_tid = socket.next_tid + 1
          /\ ( /\ last.op = "visit" /\ last.addr = a /\ last.sent = << a >>
               /\ last'.op = "visit" /\ last'.addr = a )
                => /\ last'.sent = << >>
                   /\ UNCHANGED << inflight_requests, visited, socket >>
      ]_vars

\* A second dispatch of an IPv4 address has just followed the one that requested it.
C1_Witness ==
    /\ last.op = "visit" /\ last.again
    /\ ~is_ipv6(last.addr) /\ last.addr \in visited
    /\ last.sent = << >>

\* C2: add_candidates with a tid that is not in inflight_requests returns false and
\* leaves inflight_requests, the table and visited as they were, whatever the nodes.
C2_UnknownTokenIsNoOp ==
    [][ (last'.op = "add_candidates" /\ last'.tid \notin Range(inflight_requests))
          => /\ ~last'.ret
             /\ UNCHANGED << inflight_requests, table, visited >>
      ]_vars

\* add_candidates has just failed while other requests are inflight and the table
\* lacks some node the driver could have reported.
C2_Witness ==
    /\ last.op = "add_candidates" /\ ~last.ret
    /\ inflight_requests # << >>
    /\ table # NodeUniverse

C4_OneRequestPerAddressPerPass ==
    /\ [](\A a \in Addrs : epoch_sends[a] <= 1)
    /\ [][ \A i \in 1 .. Len(last'.sent) :
             /\ last'.sent[i] \notin visited
             /\ \A j \in 1 .. (i - 1) : last'.sent[j] # last'.sent[i]
         ]_vars

\* A tick has just requested one address and passed over a candidate whose address
\* was already in visited.
C4_Witness ==
    /\ last.op = "tick" /\ last.sent # << >>
    /\ \E n \in table : n.address \in visited /\ n.address \notin Range(last.sent)

\* Every candidate of the table is of the unsupported family or has been requested,
\* and the socket no longer tracks any request of this Query.
Converged ==
    /\ \A n \in table : is_ipv6(n.address) \/ n.address \in queried
    /\ issued \cap socket.inflight_requests = {}

\* C5: once every candidate has been requested and every request is resolved, and
\* while no unrequested candidate is added, tick requests nothing more.
C5_ConvergedTickSendsNothing ==
    [][ (last'.op = "tick" /\ Converged) => last'.sent = << >> ]_vars

\* The IPv4 addresses of the table's nodes.
SupportedAddrs == { n.address : n \in { m \in table : ~is_ipv6(m.address) } }

C7_NoIpv6RequestedOrVisited ==
    /\ \A a \in visited : ~is_ipv6(a)
    /\ \A a \in queried : ~is_ipv6(a)
    /\ \A i \in 1 .. Len(last.sent) : ~is_ipv6(last.sent[i])

\* A tick whose closest candidate is an IPv6 node has just requested another node.
C7_Witness ==
    /\ last.op = "tick" /\ last.sent # << >>
    /\ table # {}
    /\ is_ipv6(TableClosest(table, target)[1].address)

\* C8: a tick that starts with an empty table requests nothing and adds nothing to
\* inflight_requests or visited.
C8_EmptyTableTickSendsNothing ==
    [][ (last'.op = "tick" /\ is_empty(table))
          => /\ last'.sent = << >>
             /\ socket' = socket
             /\ Range(inflight_requests') \subseteq Range(inflight_requests)
             /\ visited' \subseteq visited
      ]_vars

\* A tick with an empty table has just run on a Query that had dispatched directly:
\* it reaped the request and cleared visited.
C8_Witness ==
    /\ last.op = "tick" /\ is_empty(table)
    /\ last.reaped # {} /\ last.reset

\* C9: every tid in inflight_requests was returned by a request of this Query and
\* occurs once; a tid that was removed is never in inflight_requests again, and
\* add_candidates with it returns false.
C9_TokensIssuedAndRemovedOnce ==
    /\ [](\A i \in 1 .. Len(inflight_requests) :
            /\ inflight_requests[i] \in issued
            /\ \A j \in 1 .. Len(inflight_requests) :
                  j # i => inflight_requests[j] # inflight_requests[i])
    /\ [](Range(inflight_requests) \cap removed = {})
    /\ [][ (last'.op = "add_candidates" /\ last'.tid \in removed) => ~last'.ret ]_vars

\* add_candidates with a tid that was removed earlier has just failed while another
\* tid is inflight.
C9_Witness ==
    /\ last.op = "add_candidates" /\ ~last.ret
    /\ last.tid \in removed
    /\ inflight_requests # << >>

\* C10: tick drops from inflight_requests exactly the tids the socket no longer
\* tracks and keeps the others in order, so right after a tick every tid in
\* inflight_requests is tracked by the socket.
C10_ReapMatchesSocket ==
    [][ last'.op = "tick" =>
          /\ \A t \in Range(inflight_requests) :
                t \in Range(inflight_requests') <=> t \in socket.inflight_requests
          /\ SelectSeq(inflight_requests', LAMBDA t : t \in Range(inflight_requests))
               = SelectSeq(inflight_requests, LAMBDA t : t \in socket.inflight_requests)
          /\ Range(inflight_requests') \subseteq socket'.inflight_requests
      ]_vars

\* A tick has just reaped one tid and kept another.
C10_Witness ==
    /\ last.op = "tick" /\ last.reaped # {}
    /\ inflight_requests # << >>

C14_ClosestIgnoresArgument ==
    \A x, y \in Ids :
        /\ closest(table, target, x) = closest(table, target, y)
        /\ closest(table, target, x) = TableClosest(table, target)

\* The table holds nodes that another identifier would rank in a different order.
C14_Witness ==
    /\ Cardinality(table) >= 2
    /\ \E x \in Ids : TableClosest(table, x) # TableClosest(table, target)

\* C15: a tick clears visited exactly when, after its Reap and Expand phases,
\* inflight_requests is empty and visited is not; a tick that ends with
\* inflight_requests non-empty keeps every visited address, and right after any tick
\* inflight_requests empty implies visited empty.
C15_ResetIffDoneAndVisited ==
    [][ last'.op = "tick" =>
          /\ last'.reset <=>
                (inflight_requests' = << >> /\ visited \cup Range(last'.sent) # {})
          /\ last'.reset => visited' = {}
          /\ inflight_requests' # << >> => visited \cup Range(last'.sent) = visited'
          /\ inflight_requests' = << >> => visited' = {}
      ]_vars

\* A tick on a seeded Query has just reaped the last inflight tid, found nothing
\* left to request and cleared visited.
C15_Witness ==
    /\ last.op = "tick" /\ last.reset
    /\ last.reaped # {}
    /\ ~is_empty(table)
    /\ visited = {}

\* C18: inflight_requests never holds more tids than visited holds addresses; in
\* particular it is empty whenever visited is.
C18_PendingAtMostVisited ==
    /\ Len(inflight_requests) <= Cardinality(visited)
    /\ visited = {} => inflight_requests = << >>

\* Fewer tids are inflight than addresses are visited, and some tid is inflight.
C18_Witness ==
    /\ inflight_requests # << >>
    /\ Len(inflight_requests) < Cardinality(visited)

\* C19: a tick requests no address twice, also when several nodes of the table
\* share the address.
C19_SharedAddressRequestedOnce ==
    [][ last'.op = "tick" =>
          \A a \in Addrs : Count(last'.sent, a) <= 1 ]_vars

\* A tick has just requested an address that two nodes of the table share.
C19_Witness ==
    /\ last.op = "tick"
    /\ \E n, m \in table :
          /\ n.id # m.id /\ n.address = m.address
          /\ n.address \in Range(last.sent)

\* C16: target never changes; add changes only the table; add_candidates requests
\* nothing and leaves visited and the socket alone; visit leaves the table alone.
C16_FrameConditions ==
    [][ /\ target' = target
        /\ last'.op = "add"
              => UNCHANGED << inflight_requests, visited, socket >>
        /\ last'.op = "add_candidates"
              => /\ last'.sent = << >>
                 /\ UNCHANGED << visited, socket >>
        /\ last'.op = "visit" => table' = table
      ]_vars

\* A node has just been seeded while a request is inflight and its address visited.
C16_Witness ==
    /\ last.op = "add"
    /\ inflight_requests # << >>
    /\ visited # {}

\* C17: add_candidates succeeds exactly when the tid is in inflight_requests,
\* whether or not the socket still tracks it; once a tick has reaped a tid,
\* add_candidates with it fails and the table keeps its nodes only.
C17_AbsorbLooksAtPendingOnly ==
    [][ last'.op = "add_candidates" =>
          /\ last'.ret <=> last'.tid \in Range(inflight_requests)
          /\ (last.op = "tick" /\ last'.tid \in last.reaped)
                => (~last'.ret /\ table' = table)
      ]_vars

\* add_candidates has just succeeded with a tid the socket had already dropped and
\* no tick had reaped.
C17_Witness ==
    /\ last.op = "add_candidates" /\ last.ret
    /\ last.tid \in issued
    /\ last.tid \notin socket.inflight_requests

\* The driver turns to its other Query: the two Queries trade places, so every
\* action above then acts on the second one, over the same socket.
Swap ==
    /\ target' = other.target
    /\ table' = other.table
    /\ inflight_requests' = other.inflight_requests
    /\ visited' = other.visited
    /\ issued' = other.issued
    /\ queried' = other.queried
    /\ removed' = other.removed
    /\ epoch_sends' = other.epoch_sends
    /\ other' = [ target |-> target, table |-> table,
                  inflight_requests |-> inflight_requests, visited |-> visited,
                  issued |-> issued, queried |-> queried, removed |-> removed,
                  epoch_sends |-> epoch_sends ]
    /\ last' = [ NoCall EXCEPT !.op = "swap" ]
    /\ UNCHANGED socket

\* The nodes the two Queries are seeded with and receive in responses.
SharedNodes == { Node(1, 1), Node(3, 2) }

\* Two Queries on one socket, their add, tick and add_candidates calls interleaved.
NextTwo ==
    \/ \E node \in SharedNodes : Add(node)
    \/ \E tid \in Tids, nodes \in SeqUpTo(SharedNodes, MaxNodes) : AddCandidates(tid, nodes)
    \/ Tick
    \/ \E tid \in Tids : SocketResolve(tid)
    \/ Swap

SpecTwo == Init /\ [][NextTwo]_vars

\* C20: two Queries on one socket never hold the same tid in inflight_requests,
\* and add_candidates on one of them with a tid the socket issued to the other
\* returns false, changes neither Query and leaves the tid inflight where it was.
C20_QueriesDoNotShareTids ==
    /\ [](Range(inflight_requests) \cap Range(other.inflight_requests) = {})
    /\ [](issued \cap other.issued = {})
    /\ [][ (last'.op = "add_candidates" /\ last'.tid \in other.issued) =>
             /\ ~last'.ret
             /\ UNCHANGED << target, table, inflight_requests, visited, other >>
         ]_vars

\* add_candidates has just failed on one Query with a tid that is inflight in the
\* other, while this Query has a request of its own inflight.
C20_Witness ==
    /\ last.op = "add_candidates" /\ ~last.ret
    /\ last.tid \in Range(other.inflight_requests)
    /\ inflight_requests # << >>

\* The scenario of three nodes at three IPv4 addresses: for target 0, A is the
\* closest, C is closer than B.
ScenarioA == Node(1, 1)
ScenarioB == Node(3, 2)
ScenarioC == [ id |-> 2, address |-> 4 ]
ScenarioAddrs == { ScenarioA.address, ScenarioB.address, ScenarioC.address }

\* Query::new(0) with a fresh socket.
InitScenario ==
    /\ target = 0
    /\ table = TableNew
    /\ inflight_requests = << >>
    /\ visited = {}
    /\ socket = [ inflight_requests |-> {}, next_tid |-> 0 ]
    /\ last = NoCall
    /\ issued = {}
    /\ queried = {}
    /\ removed = {}
    /\ epoch_sends = [ a \in ScenarioAddrs |-> 0 ]
    /\ other = NewQuery(3)

\* A and B are seeded, C arrives in responses; one more tid than MaxTid, so that
\* each of the three nodes can be sent a request.
NextScenario ==
    \/ \E node \in { ScenarioA, ScenarioB } : Add(node)
    \/ \E tid \in 0 .. MaxTid, nodes \in { << >>, << ScenarioC >> } :
          AddCandidates(tid, nodes)
    \/ TickWithin(MaxTid + 1)
    \/ \E tid \in 0 .. MaxTid : SocketResolve(tid)

SpecScenario == InitScenario /\ [][NextScenario]_vars

\* C13: with A and B seeded, the first tick leaves a tid for A and one for B
\* inflight and both addresses visited; add_candidates(A's tid, [C]) then returns
\* true, adds C and leaves B's tid inflight; once the socket has dropped B's tid,
\* the next tick reaps it, sends one request, to C, and leaves C's tid alone
\* inflight with A, B and C visited: visited is not cleared.
C13_ScenarioTrace ==
    [][ /\ ( /\ table = { ScenarioA, ScenarioB }
             /\ inflight_requests = << >> /\ visited = {}
             /\ last'.op = "tick" )
           => /\ inflight_requests' = << socket.next_tid, socket.next_tid + 1 >>
              /\ last'.sent = << ScenarioA.address, ScenarioB.address >>
              /\ visited' = { ScenarioA.address, ScenarioB.address }
        /\ ( /\ table = { ScenarioA, ScenarioB }
             /\ Len(inflight_requests) = 2
             /\ visited = { ScenarioA.address, ScenarioB.address }
             /\ AddCandidates(inflight_requests[1], << ScenarioC >>) )
           => /\ last'.ret
              /\ table' = { ScenarioA, ScenarioB, ScenarioC }
              /\ inflight_requests' = << inflight_requests[2] >>
        /\ ( /\ table = { ScenarioA, ScenarioB, ScenarioC }
             /\ Len(inflight_requests) = 1
             /\ inflight_requests[1] \notin socket.inflight_requests
             /\ visited = { ScenarioA.address, ScenarioB.address }
             /\ last'.op = "tick" )
           => /\ last'.reaped = { inflight_requests[1] }
              /\ last'.sent = << ScenarioC.address >>
              /\ inflight_requests' = << socket.next_tid >>
              /\ visited' = ScenarioAddrs
              /\ ~last'.reset
      ]_vars

\* The end of the scenario: the tick has reaped B's tid and sent one request, to
\* C, after A's tid was removed by add_candidates and B's by that tick.
C13_Witness ==
    /\ last.op = "tick"
    /\ last.sent = << ScenarioC.address >>
    /\ Cardinality(last.reaped) = 1
    /\ table = { ScenarioA, ScenarioB, ScenarioC }
    /\ visited = ScenarioAddrs
    /\ Len(inflight_requests) = 1
    /\ Cardinality(issued) = 3
    /\ Cardinality(removed) = 2

\* The socket's tid counter (a u16) wraps around; here it does so once the socket
\* tracks no request, so that a tid handed out again is not one it still tracks.
SocketWrap ==
    /\ socket.inflight_requests = {}
    /\ socket.next_tid > 0
    /\ socket' = [ socket EXCEPT !.next_tid = 0 ]
    /\ last' = [ NoCall EXCEPT !.op = "wrap" ]
    /\ UNCHANGED << target, table, inflight_requests, visited, issued, queried,
                    removed, epoch_sends, other >>

\* The Query is seeded and ticked, responses bring no nodes, and the socket
\* serves requests without end.
NextLive ==
    \/ \E node \in NodeUniverse : Add(node)
    \/ \E tid \in Tids : AddCandidates(tid, << >>)
    \/ Tick
    \/ \E tid \in Tids : SocketResolve(tid)
    \/ SocketWrap

\* Tick can be taken: the socket has the tids left that the tick would use.
TickEnabled == tick(Current, table, target).socket.next_tid <= MaxTid

\* tick is called forever (weak fairness of Tick, its enabling condition written
\* out as the state predicate TickEnabled), and the socket eventually stops
\* tracking every tid it has issued and keeps issuing tids.
SpecLive ==
    /\ Init
    /\ [][NextLive]_vars
    /\ ([]<>(~TickEnabled) \/ []<><<Tick>>_vars)
    /\ \A tid \in Tids : WF_vars(SocketResolve(tid))
    /\ WF_vars(SocketWrap)

====
